---------------------------- MODULE Spec2Model ----------------------------
(***************************************************************************)
(* Model of src/app.py: scene extraction (SceneDetect, frame-difference    *)
(* fallback, single-scene default), the run-button handler, and the        *)
(* midpoint alignment of Whisper segments to scenes.                       *)
(*                                                                         *)
(* Time.  Every time value is an integer number of ticks, one tick being   *)
(* 1/TicksPerSec second, so that frame_idx / fps and the thresholds 1.0,   *)
(* 0.8 and 0.1 seconds of the source are exact integers.  Arithmetic is    *)
(* exact (rational); floating-point rounding is not modelled.  A segment   *)
(* midpoint (start + end) / 2 may fall between two ticks, so the model     *)
(* keeps twice the midpoint and compares it with twice the scene bounds.   *)
(*                                                                         *)
(* Text.  A text is a sequence of one-character strings, so that strip()   *)
(* and "\n".join() are computed and not assumed.                           *)
(***************************************************************************)
EXTENDS Integers, Sequences, FiniteSets, TLC

VARIABLES
    opened,      \* cv2.VideoCapture(video_path).isOpened()
    fps_raw,     \* cap.get(cv2.CAP_PROP_FPS) of the uploaded video (0 = unknown)
    n_frames,    \* frames of the video: CAP_PROP_FRAME_COUNT, and reads that succeed
    pc,          \* position of the run in the handler / in the function called
    caller,      \* who called fallback_extract_scenes_by_diff
    det,         \* outcome of the SceneDetect path: "pending", "raised", "ok"
    scene_list,  \* scene_manager.get_scene_list() as <<start, end>> pairs
    fb,          \* fallback: "notrun", "running", "unopened", "empty", "found"
    frame_idx,   \* fallback_extract_scenes_by_diff: frame_idx
    start_time,  \* fallback_extract_scenes_by_diff: start_time
    last_gray,   \* fallback_extract_scenes_by_diff: last_gray is not None
    origin,      \* the assignment that gave scenes its value
    scenes,      \* the scene list (a sequence of scene records)
    segments,    \* the Whisper segments (a sequence of segment records)
    seg_i        \* align_scenes_and_segments: index of the segment being scanned

videoVars   == <<opened, fps_raw, n_frames>>
extractVars == <<caller, det, scene_list, fb, frame_idx, start_time, last_gray,
                 origin>>

vars == <<videoVars, extractVars, pc, scenes, segments, seg_i>>

---------------------------------------------------------------------------
(* Bounds of the model                                                     *)

MaxTime   == 2   \* scene and segment times range over 0..MaxTime time steps
MaxScenes == 2   \* longest scene list handed to the alignment function
MaxSegs   == 2   \* longest segment list
MaxFrames == 10  \* longest video, in frames
MaxCut    == 5   \* SceneDetect cuts range over 0..MaxCut time steps

---------------------------------------------------------------------------
(* Program constants                                                       *)

DefaultFps == 30   \* cap.get(cv2.CAP_PROP_FPS) or 30.0

TicksPerSec == DefaultFps          \* one tick = one frame period at DefaultFps
TimeStep    == TicksPerSec \div 2  \* sampled times are half a second apart

Times == {k * TimeStep : k \in 0..MaxTime}

None == "None"

---------------------------------------------------------------------------
(* Texts                                                                   *)

Whitespace == {" ", "\n", "\t"}

\* values of seg.get("text", ""); Whisper gives every segment a "text"
Texts == {<<"A">>, <<" ", "B", " ">>}

RECURSIVE LStrip(_)
LStrip(t) ==
    IF t # <<>> /\ Head(t) \in Whitespace THEN LStrip(Tail(t)) ELSE t

RECURSIVE RStrip(_)
RStrip(t) ==
    IF t # <<>> /\ t[Len(t)] \in Whitespace
    THEN RStrip(SubSeq(t, 1, Len(t) - 1))
    ELSE t

\* str.strip()
Strip(t) == RStrip(LStrip(t))

\* "\n".join(parts)
RECURSIVE JoinNewline(_)
JoinNewline(parts) ==
    IF parts = <<>> THEN <<>>
    ELSE IF Len(parts) = 1 THEN parts[1]
    ELSE parts[1] \o <<"\n">> \o JoinNewline(Tail(parts))

\* [t for t in text_list if t]
NonEmpty(t) == t # <<>>

---------------------------------------------------------------------------
(* format_time                                                             *)

\* f"{s//60:02}:{s%60:02}" with s = int(seconds), kept as <<minutes, seconds>>
format_time(ticks) ==
    LET s == ticks \div TicksPerSec IN <<s \div 60, s % 60>>

\* the scene dict as extract_scenes returns it
SceneRecord(start, end) ==
    [start |-> start, end |-> end,
     time_str |-> format_time(start), img |-> None, text |-> <<>>]

---------------------------------------------------------------------------
(* The video and the thresholds, in ticks                                  *)

\* frame rates the uploaded video may report; 0 is "not reported"
FpsValues == {0, 10}

\* fps = cap.get(cv2.CAP_PROP_FPS) or 30.0
Fps == IF fps_raw # 0 THEN fps_raw ELSE DefaultFps

\* n / fps if fps else 0, in ticks
FrameTime(n) == IF Fps # 0 THEN (n * TicksPerSec) \div Fps ELSE 0

\* frame_count = cap.get(cv2.CAP_PROP_FRAME_COUNT) or 0; duration = frame_count / fps
Duration == FrameTime(n_frames)

LeadThreshold == TicksPerSec             \* 1.0 second
MinSceneLen   == (8 * TicksPerSec) \div 10  \* min_scene_len = 0.8 second
MinTailLen    == TicksPerSec \div 10     \* 0.1 second

Raw(start, end) == [start |-> start, end |-> end]

---------------------------------------------------------------------------
(* extract_scenes_with_scenedetect                                         *)

\* what get_scene_list() may return: the scenes between consecutive cuts, in
\* order, each ending where the next starts; the first may start after 0
CutTimes == {k * TimeStep : k \in 0..MaxCut}

RECURSIVE Ascending(_)
Ascending(S) ==
    IF S = {} THEN <<>>
    ELSE LET lo == CHOOSE x \in S : \A y \in S : x <= y
         IN  <<lo>> \o Ascending(S \ {lo})

SceneListOf(cuts) ==
    LET b == Ascending(cuts)
    IN  [k \in 1..(Len(b) - 1) |-> <<b[k], b[k + 1]>>]

DetectorOutputs == {SceneListOf(c) : c \in SUBSET CutTimes}

\* variant: a first scene starting exactly at the threshold also gets a leading scene
NeedsLeadingSceneFromThreshold(sl) == sl = <<>> \/ sl[1][1] >= LeadThreshold

\* variant: no leading scene for an empty scene list
NeedsLeadingSceneUnlessEmpty(sl) == sl # <<>> /\ sl[1][1] > LeadThreshold

\* if not scene_list or scene_list[0][0].get_seconds() > 1.0
NeedsLeadingScene(sl) == sl = <<>> \/ sl[1][1] > LeadThreshold

\* the scenes built from scene_list (the try block's result)
ScenesFromSceneList(sl) ==
    LET lead == IF NeedsLeadingScene(sl)
                THEN <<Raw(0, IF sl # <<>> THEN sl[1][1] ELSE Duration)>>
                ELSE <<>>
    IN  lead \o [k \in 1..Len(sl) |-> Raw(sl[k][1], sl[k][2])]

\* the try block runs to its return; VideoManager raises on a video that
\* cannot be opened
DetectReturns ==
    /\ pc = "extract"
    /\ opened
    /\ \E sl \in DetectorOutputs :
          /\ scene_list' = sl
          /\ scenes' = ScenesFromSceneList(sl)
    /\ det' = "ok"
    /\ origin' = "scenedetect"
    /\ pc' = "after_detect"
    /\ UNCHANGED <<videoVars, caller, fb, frame_idx, start_time, last_gray,
                   segments, seg_i>>

\* except Exception: st.warning(...); return []  (any video may make it raise)
DetectRaises ==
    /\ pc = "extract"
    /\ scenes' = <<>>
    /\ det' = "raised"
    /\ origin' = "scenedetect"
    /\ pc' = "after_detect"
    /\ UNCHANGED <<videoVars, caller, scene_list, fb, frame_idx, start_time,
                   last_gray, segments, seg_i>>

---------------------------------------------------------------------------
(* fallback_extract_scenes_by_diff                                         *)

\* the call, up to the loop: cap.isOpened() decides between return [] and the loop
FallbackCall(who, back) ==
    /\ caller' = who
    /\ origin' = "fallback"
    /\ scenes' = <<>>
    /\ frame_idx' = 0
    /\ start_time' = 0
    /\ last_gray' = FALSE
    /\ IF opened
       THEN fb' = "running" /\ pc' = "fb_loop"
       ELSE fb' = "unopened" /\ pc' = back

ReturnPoint == IF caller = "handler" THEN "check2" ELSE "after_fallback"

\* one iteration of "while True" with ret true; cut is "score > threshold"
FallbackFrame ==
    /\ pc = "fb_loop"
    /\ frame_idx < n_frames
    /\ \E cut \in BOOLEAN :
          /\ cut => last_gray
          /\ LET end_time == FrameTime(frame_idx)
             IN  IF cut
                 THEN /\ scenes' = IF end_time - start_time >= MinSceneLen
                                   THEN Append(scenes, Raw(start_time, end_time))
                                   ELSE scenes
                      /\ start_time' = end_time
                 ELSE UNCHANGED <<scenes, start_time>>
    /\ last_gray' = TRUE
    /\ frame_idx' = frame_idx + 1
    /\ UNCHANGED <<videoVars, pc, caller, det, scene_list, fb, origin,
                   segments, seg_i>>

\* ret false: break, add the last scene, return scenes
FallbackEnd ==
    /\ pc = "fb_loop"
    /\ frame_idx = n_frames
    /\ LET total_duration == FrameTime(frame_idx)
       IN  scenes' = IF total_duration - start_time >= MinTailLen
                     THEN Append(scenes, Raw(start_time, total_duration))
                     ELSE scenes
    /\ fb' = IF scenes' = <<>> THEN "empty" ELSE "found"
    /\ pc' = ReturnPoint
    /\ UNCHANGED <<videoVars, caller, det, scene_list, frame_idx, start_time,
                   last_gray, origin, segments, seg_i>>

---------------------------------------------------------------------------
(* extract_scenes                                                          *)

\* if not scenes: scenes = fallback_extract_scenes_by_diff(...)
ExtractFallback ==
    /\ pc = "after_detect"
    /\ IF scenes = <<>>
       THEN FallbackCall("extract_scenes", "after_fallback")
       ELSE /\ pc' = "after_fallback"
            /\ UNCHANGED <<caller, fb, frame_idx, start_time, last_gray,
                           origin, scenes>>
    /\ UNCHANGED <<videoVars, det, scene_list, segments, seg_i>>

\* ensure at least one scene; attach time_str, img, text; return scenes
ExtractReturn ==
    /\ pc = "after_fallback"
    /\ LET dicts == IF scenes = <<>> THEN <<Raw(0, Duration)>> ELSE scenes
       IN  scenes' = [k \in 1..Len(dicts) |->
                        SceneRecord(dicts[k].start, dicts[k].end)]
    /\ origin' = IF scenes = <<>> THEN "default" ELSE origin
    /\ pc' = "check"
    /\ UNCHANGED <<videoVars, caller, det, scene_list, fb, frame_idx,
                   start_time, last_gray, segments, seg_i>>

---------------------------------------------------------------------------
(* align_scenes_and_segments                                               *)

\* twice seg_mid = (seg["start"] + seg["end"]) / 2
Mid2(seg) == seg.start + seg.end

\* variant: the scene interval taken as closed at its end
ContainsClosed(sc, m2) == 2 * sc.start <= m2 /\ m2 <= 2 * sc.end

\* sc["start"] <= seg_mid < sc["end"]
Contains(sc, m2) == 2 * sc.start <= m2 /\ m2 < 2 * sc.end

\* the inner "for sc in scenes: ... break": index of the scene that takes the
\* segment, 0 when the scan ends with matched = False
FirstMatch(scs, m2) ==
    IF \E k \in 1..Len(scs) : Contains(scs[k], m2)
    THEN CHOOSE k \in 1..Len(scs) :
            /\ Contains(scs[k], m2)
            /\ \A j \in 1..(k - 1) : ~Contains(scs[j], m2)
    ELSE 0

\* variant: an unmatched segment routed to the first scene
OrphanFirst(scs) == 1

\* scenes[-1] of "if not matched and scenes"
OrphanScene(scs) == Len(scs)

\* variant: the fragment inserted at the front of the list
PrependFragment(text_list, fragment) == <<fragment>> \o text_list

\* sc["text_list"].append(fragment)
AppendFragment(text_list, fragment) == Append(text_list, fragment)

\* for sc in scenes: sc["text_list"] = []
AlignBegin ==
    /\ pc = "align"
    /\ scenes' = [k \in 1..Len(scenes) |->
                    [start |-> scenes[k].start, end |-> scenes[k].end,
                     time_str |-> scenes[k].time_str, img |-> scenes[k].img,
                     text |-> scenes[k].text, text_list |-> <<>>]]
    /\ seg_i' = 1
    /\ pc' = "align_loop"
    /\ UNCHANGED <<videoVars, extractVars, segments>>

\* one iteration of "for seg in segments"
AlignSegment ==
    /\ pc = "align_loop"
    /\ seg_i <= Len(segments)
    /\ LET seg      == segments[seg_i]
           m        == FirstMatch(scenes, Mid2(seg))
           target   == IF m # 0 THEN m
                       ELSE IF scenes # <<>> THEN OrphanScene(scenes) ELSE 0
           fragment == Strip(seg.text)
       IN  scenes' = [k \in 1..Len(scenes) |->
                        IF k = target
                        THEN [scenes[k] EXCEPT
                                !.text_list = AppendFragment(@, fragment)]
                        ELSE scenes[k]]
    /\ seg_i' = seg_i + 1
    /\ UNCHANGED <<videoVars, extractVars, pc, segments>>

\* for sc in scenes: sc["text"] = "\n".join(...); return scenes
AlignJoin ==
    /\ pc = "align_loop"
    /\ seg_i > Len(segments)
    /\ scenes' = [k \in 1..Len(scenes) |->
                    [scenes[k] EXCEPT
                        !.text = JoinNewline(SelectSeq(scenes[k].text_list, NonEmpty))]]
    /\ pc' = "aligned"
    /\ UNCHANGED <<videoVars, extractVars, segments, seg_i>>

---------------------------------------------------------------------------
(* Inputs of the alignment function                                        *)

RECURSIVE SeqsUpTo(_, _)
SeqsUpTo(S, n) ==
    IF n = 0 THEN {<<>>}
    ELSE LET shorter == SeqsUpTo(S, n - 1)
         IN  shorter \cup {Append(q, x) : q \in shorter, x \in S}

\* segment times: Whisper gives start <= end, and start = end is allowed
Intervals == {<<s, e>> \in Times \X Times : s <= e}

\* scene intervals have start < end and a scene list is ordered by start;
\* scenes may overlap or leave gaps
SceneIntervals == {i \in Intervals : i[1] < i[2]}

OrderedByStart(q) == \A k \in 1..(Len(q) - 1) : q[k][1] <= q[k + 1][1]

SceneInputs ==
    {[k \in 1..Len(q) |-> SceneRecord(q[k][1], q[k][2])] :
        q \in {r \in SeqsUpTo(SceneIntervals, MaxScenes) : OrderedByStart(r)}}

SegmentValues ==
    {[start |-> i[1], end |-> i[2], text |-> t] : i \in Intervals, t \in Texts}

SegmentInputs == SeqsUpTo(SegmentValues, MaxSegs)

\* a call align_scenes_and_segments(scenes, segments)
InitAlign ==
    /\ opened = TRUE
    /\ fps_raw = 0
    /\ n_frames = 0
    /\ pc = "align"
    /\ caller = "none"
    /\ det = "pending"
    /\ scene_list = <<>>
    /\ fb = "notrun"
    /\ frame_idx = 0
    /\ start_time = 0
    /\ last_gray = FALSE
    /\ origin = "argument"
    /\ scenes \in SceneInputs
    /\ segments \in SegmentInputs
    /\ seg_i = 0

NextAlign == AlignBegin \/ AlignSegment \/ AlignJoin

\* calls of align_scenes_and_segments
SpecAlign == InitAlign /\ [][NextAlign]_vars

\* what model.transcribe(...) may return
WhisperOutputs == SegmentInputs

---------------------------------------------------------------------------
(* The run-button handler                                                  *)

\* "if not scenes: (fallback)" and "if not scenes: st.error(...); st.stop()"
HandlerCheck ==
    /\ pc \in {"check", "check2"}
    /\ IF scenes # <<>>
       THEN /\ pc' = "capture"
            /\ UNCHANGED <<caller, fb, frame_idx, start_time, last_gray,
                           origin, scenes>>
       ELSE IF pc = "check"
            THEN FallbackCall("handler", "check2")
            ELSE /\ pc' = "scene_error"
                 /\ UNCHANGED <<caller, fb, frame_idx, start_time, last_gray,
                                origin, scenes>>
    /\ UNCHANGED <<videoVars, det, scene_list, segments, seg_i>>

\* for i, sc in enumerate(scenes): img = capture_frame(video_path, mid); the
\* scenes in got are those whose frame could be read
CaptureFrames ==
    /\ pc = "capture"
    /\ \E got \in SUBSET (1..Len(scenes)) :
          /\ ~opened => got = {}
          /\ scenes' = [k \in 1..Len(scenes) |->
                          [scenes[k] EXCEPT !.img = IF k \in got THEN k ELSE None]]
    /\ pc' = "transcribe"
    /\ UNCHANGED <<videoVars, extractVars, segments, seg_i>>

\* segments = transcribe_video(...)
TranscribeReturns ==
    /\ pc = "transcribe"
    /\ segments' \in WhisperOutputs
    /\ pc' = "align"
    /\ UNCHANGED <<videoVars, extractVars, scenes, seg_i>>

\* except Exception: st.error(...); st.stop()
TranscribeRaises ==
    /\ pc = "transcribe"
    /\ pc' = "whisper_error"
    /\ UNCHANGED <<videoVars, extractVars, scenes, segments, seg_i>>

\* the gallery and the downloads
ShowResults ==
    /\ pc = "aligned"
    /\ pc' = "done"
    /\ UNCHANGED <<videoVars, extractVars, scenes, segments, seg_i>>

---------------------------------------------------------------------------
(* Specifications                                                          *)

\* the button is pressed on an uploaded video
InitRun ==
    /\ opened \in BOOLEAN
    /\ fps_raw \in FpsValues
    /\ n_frames \in 0..MaxFrames
    /\ ~opened => fps_raw = 0 /\ n_frames = 0
    /\ pc = "extract"
    /\ caller = "none"
    /\ det = "pending"
    /\ scene_list = <<>>
    /\ fb = "notrun"
    /\ frame_idx = 0
    /\ start_time = 0
    /\ last_gray = FALSE
    /\ origin = "none"
    /\ scenes = <<>>
    /\ segments = <<>>
    /\ seg_i = 0

NextExtract ==
    \/ DetectReturns
    \/ DetectRaises
    \/ ExtractFallback
    \/ FallbackFrame
    \/ FallbackEnd
    \/ ExtractReturn

\* calls of extract_scenes
SpecExtract == InitRun /\ [][NextExtract]_vars

Next ==
    \/ NextExtract
    \/ HandlerCheck
    \/ CaptureFrames
    \/ TranscribeReturns
    \/ TranscribeRaises
    \/ NextAlign
    \/ ShowResults

\* runs of the handler
Spec == InitRun /\ [][Next]_vars


---------------------------------------------------------------------------
(* Properties of align_scenes_and_segments                                 *)

Aligning == pc \in {"align_loop", "aligned"}

\* the step that scans segments[seg_i]
ScanStep == pc = "align_loop" /\ seg_i <= Len(segments)

\* scene k holds twice-the-midpoint m2 in [start, end)
Holds(k, m2) == 2 * scenes[k].start <= m2 /\ m2 < 2 * scenes[k].end

\* the step adds the scanned segment's stripped text at the end of scene k's
\* fragments and changes no other scene's fragments
GoesOnlyTo(k) ==
    /\ Len(scenes') = Len(scenes)
    /\ scenes'[k].text_list =
          scenes[k].text_list \o <<Strip(segments[seg_i].text)>>
    /\ \A j \in 1..Len(scenes) :
          j # k => scenes'[j].text_list = scenes[j].text_list

RECURSIVE TotalFragments(_)
TotalFragments(scs) ==
    IF scs = <<>> THEN 0
    ELSE Len(Head(scs).text_list) + TotalFragments(Tail(scs))

\* C2: when the alignment has returned, the scenes hold as many text
\* fragments in total as there are input segments (none dropped, none
\* duplicated).
C2_NoSegmentLost ==
    pc = "aligned" => TotalFragments(scenes) = Len(segments)

\* C3: the alignment never returns a result for an empty scene list; a call
\* with no scene ends in an error instead.
C3_EmptyScenesRejected ==
    pc = "aligned" => scenes # <<>>

\* C5: with at least one scene, a segment whose midpoint lies in no scene
\* interval has its text appended to the last scene and to no other.
C5_OrphanRouting ==
    [][(/\ ScanStep
        /\ scenes # <<>>
        /\ \A k \in 1..Len(scenes) :
              ~Holds(k, segments[seg_i].start + segments[seg_i].end))
       => GoesOnlyTo(Len(scenes))]_vars

\* C5 witness: with two scenes, a segment whose midpoint is at or past the end
\* of the last scene and in no scene has been scanned; its text is the last
\* scene's only fragment and the first scene has none.
C5_Witness ==
    /\ pc = "align_loop"
    /\ seg_i = 2
    /\ Len(scenes) = 2
    /\ segments[1].start + segments[1].end >= 2 * scenes[2].end
    /\ \A k \in 1..2 : ~Holds(k, segments[1].start + segments[1].end)
    /\ scenes[2].text_list = <<Strip(segments[1].text)>>
    /\ scenes[1].text_list = <<>>

\* C6: a segment whose midpoint lies in some scene's half-open interval
\* [start, end) has its text appended to the lowest-index such scene and to
\* no other; so a midpoint on the boundary of two adjacent scenes goes to the
\* scene that starts there.
C6_FirstHalfOpenMatch ==
    [][(/\ ScanStep
        /\ \E k \in 1..Len(scenes) :
              Holds(k, segments[seg_i].start + segments[seg_i].end))
       => LET m2 == segments[seg_i].start + segments[seg_i].end
              lowest == CHOOSE k \in 1..Len(scenes) :
                          Holds(k, m2) /\ \A j \in 1..(k - 1) : ~Holds(j, m2)
          IN  GoesOnlyTo(lowest)]_vars

\* C6 witness: a segment whose midpoint is exactly the boundary shared by two
\* adjacent scenes has been scanned; the scene starting there has its text
\* and the scene ending there has nothing.
C6_Witness ==
    /\ pc = "align_loop"
    /\ seg_i = 2
    /\ Len(scenes) = 2
    /\ scenes[1].end = scenes[2].start
    /\ segments[1].start + segments[1].end = 2 * scenes[1].end
    /\ scenes[2].text_list = <<Strip(segments[1].text)>>
    /\ scenes[1].text_list = <<>>

\* the stripped texts of the segments whose indices are in S, by ascending index
RECURSIVE TextsAt(_, _)
TextsAt(S, from) ==
    IF from > Len(segments) THEN <<>>
    ELSE IF from \in S
         THEN <<Strip(segments[from].text)>> \o TextsAt(S, from + 1)
         ELSE TextsAt(S, from + 1)

\* C7: within each scene the text fragments are in the order of their source
\* segments in the input sequence: each scene's fragments are the texts of
\* some of the segments scanned so far, taken by ascending input index,
\* whatever the segments' timestamps.
C7_InputOrderKept ==
    Aligning =>
        \A k \in 1..Len(scenes) :
            \E S \in SUBSET (1..(seg_i - 1)) :
                scenes[k].text_list = TextsAt(S, 1)

\* C7 witness: two segments with different texts, the first one later in time
\* than the second, both in one scene, whose fragments are in input order.
C7_Witness ==
    /\ pc = "aligned"
    /\ Len(segments) = 2
    /\ segments[1].start > segments[2].end
    /\ Strip(segments[1].text) # Strip(segments[2].text)
    /\ \E k \in 1..Len(scenes) :
          /\ Holds(k, segments[1].start + segments[1].end)
          /\ scenes[k].text_list =
                <<Strip(segments[1].text), Strip(segments[2].text)>>

---------------------------------------------------------------------------
(* Properties of scene extraction and of the run                           *)

\* the <<start, end>> pairs of a scene list
IntervalsOf(scs) == [k \in 1..Len(scs) |-> <<scs[k].start, scs[k].end>>]

\* C1: every scene list extract_scenes returns starts at 0 and has no gap and
\* no overlap: each scene ends where the next one starts.
C1_Coverage ==
    pc = "check" =>
        /\ scenes # <<>>
        /\ scenes[1].start = 0
        /\ \A k \in 1..(Len(scenes) - 1) : scenes[k].end = scenes[k + 1].start

\* C4: when the SceneDetect path has failed and the fallback has produced
\* nothing (or could not open the video), the run never reaches frame
\* capture, transcription or alignment.
C4_DetectionFailureIsFatal ==
    (det = "raised" /\ fb \in {"unopened", "empty"}) =>
        pc \notin {"capture", "transcribe", "whisper_error", "align",
                   "align_loop", "aligned", "done"}

\* C8: when SceneDetect returns a non-empty scene list, the scenes are that
\* list in its order, preceded by exactly one scene [0, first start) if the
\* first start is more than 1.0 second, and by nothing otherwise.
C8_LeadingGap ==
    (/\ pc \in {"after_detect", "after_fallback", "check"}
     /\ det = "ok"
     /\ scene_list # <<>>)
    => IntervalsOf(scenes) =
          (IF scene_list[1][1] > TicksPerSec
           THEN << <<0, scene_list[1][1]>> >>
           ELSE <<>>) \o scene_list

\* C8 witness: extract_scenes has returned for a scene list of two scenes
\* whose first start is past 1.0 second; a scene [0, first start) leads.
C8_Witness ==
    /\ pc = "check"
    /\ det = "ok"
    /\ Len(scene_list) = 2
    /\ scene_list[1][1] > TicksPerSec
    /\ Len(scenes) = 3
    /\ scenes[1].start = 0
    /\ scenes[1].end = scene_list[1][1]

\* C9 as stated: the fallback has run whenever SceneDetect raised or returned
\* no scene, and the default scene is used only after the fallback gave none.
C9_FallbackWheneverNothing ==
    pc = "check" =>
        /\ (det = "raised" \/ (det = "ok" /\ scene_list = <<>>))
              => fb # "notrun"
        /\ origin = "default" => fb \in {"unopened", "empty"}

\* C9 as amended: the fallback has run exactly when SceneDetect raised; when
\* SceneDetect returned no scene, its own path gave the single scene
\* [0, duration) and the fallback did not run; the default scene of
\* extract_scenes is used only after the fallback gave no scene.
C9_FallbackOnlyWhenDetectRaises ==
    pc = "check" =>
        /\ fb # "notrun" <=> det = "raised"
        /\ (det = "ok" /\ scene_list = <<>>)
              => /\ fb = "notrun"
                 /\ origin = "scenedetect"
                 /\ IntervalsOf(scenes) = << <<0, Duration>> >>
        /\ origin = "default" => fb \in {"unopened", "empty"}

\* C9 witness: SceneDetect returned no scene for a video of positive
\* duration; extract_scenes returned [0, duration) and the fallback never ran.
C9_Witness ==
    /\ pc = "check"
    /\ det = "ok"
    /\ scene_list = <<>>
    /\ fb = "notrun"
    /\ Duration > 0
    /\ IntervalsOf(scenes) = << <<0, Duration>> >>

\* C10: in the fallback a suppressed cut does not move the boundary: the
\* start of the scene being built is the end of the last scene emitted, or 0
\* when none has been emitted.
C10_SuppressedCutKeepsBoundary ==
    pc = "fb_loop" =>
        start_time = IF scenes = <<>> THEN 0 ELSE scenes[Len(scenes)].end

=============================================================================
